---------------------------- MODULE Spec2Model ----------------------------
(***************************************************************************)
(* A model of src/src/pdf2xls/pdf2xls.py: the command line entry point     *)
(* main() and the conversion routine pdf_to_excel() with its helpers       *)
(* mm_to_points, write_text_to_sheet and write_table_to_sheet.             *)
(*                                                                         *)
(* One run of the program is one behaviour.  pc is the position in the     *)
(* code; every action is one statement group of the source.  The PDF       *)
(* library and the spreadsheet library are the environment: what a         *)
(* document contains is chosen when it is opened, and every library call   *)
(* that can raise has a raising branch.                                    *)
(*                                                                         *)
(* Python values: an optional value is None (the empty tuple) or Some(v);  *)
(* a path is a sequence of characters, so that lower() and endswith() are  *)
(* computed; printed text and sheet titles are strings built as the        *)
(* f-strings build them; lengths in points are integers in units of        *)
(* 1/100000 point, so that mm * 2.83465 is exact.                          *)
(***************************************************************************)
EXTENDS Integers, Sequences, FiniteSets, TLC

VARIABLES
    pc,            \* position in main / pdf_to_excel
    args,          \* the parsed command line (argparse namespace)
    input_exists,  \* os.path.exists(input_file)
    out_file,      \* the file at output_file in the file system
    header_height, \* local of pdf_to_excel (points), None before line 109
    footer_height, \* local of pdf_to_excel (points), None before line 110
    pdf,           \* the pdfplumber document handle
    close_count,   \* number of pdf.close() calls made
    workbook,      \* the openpyxl workbook: its sheets in order
    all_text,      \* local list all_text
    i,             \* loop variable of line 128, None outside the loop
    page,          \* local page: the document page object held (its number)
    exc,           \* the exception being raised or handled
    stdout,        \* lines printed, in order
    exit_status,   \* the process exit status, None while running
    processed,     \* history: one record per page fetched at line 130
    page_failure,  \* history: number of the page whose processing raised
    save_count     \* history: number of workbook.save() calls made

vars == <<pc, args, input_exists, out_file, header_height, footer_height, pdf,
          close_count, workbook, all_text, i, page, exc, stdout, exit_status,
          processed, page_failure, save_count>>

---------------------------------------------------------------------------
(* Bounds of the model *)

\* Largest number of pages of a document; page arguments range over
\* 0 .. MaxPages + 1, so that a range can start before and end after it.
MaxPages == 2

---------------------------------------------------------------------------
(* Python values *)

None == <<>>
Some(v) == <<v>>

\* Variant of Truthy: `if page_text is not None:`.
TruthyNotNone(t) == t # None

\* Truthiness of an optional string, as in `if page_text:`.
Truthy(t) == t # None /\ t[1] # ""

ToLowerMap ==
    ("P" :> "p") @@ ("D" :> "d") @@ ("F" :> "f") @@ ("X" :> "x") @@
    ("L" :> "l") @@ ("S" :> "s") @@ ("T" :> "t") @@ ("C" :> "c") @@
    ("V" :> "v") @@ ("A" :> "a") @@ ("O" :> "o")

LowerChar(c) == IF c \in DOMAIN ToLowerMap THEN ToLowerMap[c] ELSE c

\* Variant of Lower: the path compared as it is written.
LowerOmitted(s) == s

\* str.lower()
Lower(s) == [k \in 1..Len(s) |-> LowerChar(s[k])]

\* str.endswith(suffix)
EndsWith(s, suffix) ==
    /\ Len(s) >= Len(suffix)
    /\ SubSeq(s, Len(s) - Len(suffix) + 1, Len(s)) = suffix

\* The text of a path, for messages.
RECURSIVE PathStr(_)
PathStr(p) == IF p = <<>> THEN "" ELSE Head(p) \o PathStr(Tail(p))

DotPdf == <<".", "p", "d", "f">>
DotXlsx == <<".", "x", "l", "s", "x">>

\* Exception classes and their base classes (IOError is OSError).
Bases ==
    [t \in {"FileNotFoundError", "OSError", "ValueError", "IndexError",
            "RuntimeError", "TypeError", "AttributeError", "LibraryError",
            "IllegalCharacterError"} |->
        CASE t = "FileNotFoundError" -> {"FileNotFoundError", "OSError", "Exception"}
          [] t = "IndexError" -> {"IndexError", "LookupError", "Exception"}
          [] OTHER -> {t, "Exception"}]

IsInstance(e, cls) == cls \in Bases[e.type]

NoExc == [type |-> "", msg |-> "", context |-> ""]
Raise(t, m) == [type |-> t, msg |-> m, context |-> ""]
\* raise inside an except block: the handled exception becomes __context__
RaiseFrom(t, m, e) == [type |-> t, msg |-> m, context |-> e.type]

---------------------------------------------------------------------------
(* The environment: documents and files *)

Table1 == << <<"a", "b">>, <<"c">> >>
Table2 == << <<"x">>, <<"y", "", "z">> >>

\* What a page can hold inside the cropping box.
PageKinds ==
    { [text |-> None, tables |-> <<>>],
      [text |-> Some("alpha"), tables |-> <<Table1>>],
      [text |-> Some(""), tables |-> <<Table2, Table1>>] }

\* A4 in units of 1/100000 point
PageWidth == 595 * 100000
PageHeight == 842 * 100000

Docs == UNION { [1..n -> PageKinds] : n \in 1..MaxPages }

Absent == [exists |-> FALSE, sheets |-> <<>>, version |-> 0]
OldFile == [exists |-> TRUE, sheets |-> <<>>, version |-> 0]

InputPaths ==
    { <<"a", ".", "P", "d", "f">>, <<"a", ".", "t", "x", "t">>, <<"p", "d", "f">> }

OutputPaths ==
    { None, Some(<<"o", ".", "X", "l", "s", "x">>), Some(<<"o", ".", "c", "s", "v">>) }

PageArgs == {None} \cup { Some(n) : n \in 0..(MaxPages + 1) }

HeaderArgs == { None, Some(10) }
FooterArgs == { None, Some(0) }

NoArgs ==
    [input_file |-> <<>>, output_file |-> None, start_page |-> None,
     end_page |-> None, header_height_mm |-> None, footer_height_mm |-> None,
     verbose |-> FALSE]

---------------------------------------------------------------------------
(* Helpers of the source *)

PointsPerMm == 283465

\* mm_to_points: mm * 2.83465, in units of 1/100000 point
mm_to_points(mm) == mm * PointsPerMm

EmptyCells == [rc \in {} |-> ""]

\* sheet.cell(row, column, value) for every cell of `written`
SetCells(cells, written) ==
    [rc \in (DOMAIN cells) \cup (DOMAIN written) |->
        IF rc \in DOMAIN written THEN written[rc] ELSE cells[rc]]

\* write_text_to_sheet: enumerate(text_data, start=1), column 1
write_text_to_sheet(cells, text_data) ==
    SetCells(cells,
             [rc \in { <<r, 1>> : r \in 1..Len(text_data) } |-> text_data[rc[1]]])

\* Variant of write_table_to_sheet: row and column exchanged.
write_table_transposed(cells, table) ==
    SetCells(cells,
             [rc \in UNION { { <<c, r>> : c \in 1..Len(table[r]) } : r \in 1..Len(table) }
                 |-> table[rc[2]][rc[1]]])

\* write_table_to_sheet: enumerate rows and values from 1
write_table_to_sheet(cells, table) ==
    SetCells(cells,
             [rc \in UNION { { <<r, c>> : c \in 1..Len(table[r]) } : r \in 1..Len(table) }
                 |-> table[rc[1]][rc[2]]])

\* Variant of create_sheet: create_sheet(title, 0), the new sheet put first.
create_sheet_first(wb, title) == <<[title |-> title, cells |-> EmptyCells]>> \o wb

\* workbook.create_sheet(title=...): a new empty sheet, appended last
create_sheet(wb, title) == Append(wb, [title |-> title, cells |-> EmptyCells])

\* f"Page {i + 1}:\n{page_text}"
PageEntry(idx, text) == "Page " \o ToString(idx + 1) \o ":\n" \o text

\* f"Table_Page_{i + 1}_{table_idx}"
TableTitle(idx, table_idx) ==
    "Table_Page_" \o ToString(idx + 1) \o "_" \o ToString(table_idx)

\* pdf.pages[idx] on a Python list: the 1-based number of the page
\* returned, or 0 when the list raises IndexError
PyIndex(n, idx) ==
    IF 0 <= idx /\ idx < n THEN idx + 1
    ELSE IF idx < 0 /\ -n <= idx THEN n + idx + 1
    ELSE 0

\* lines 148-150: one new sheet per table, in detection order
RECURSIVE AddTableSheets(_, _, _, _)
AddTableSheets(wb, idx, tables, table_idx) ==
    IF table_idx > Len(tables) THEN wb
    ELSE LET created == create_sheet(wb, TableTitle(idx, table_idx))
             k == Len(created)
             filled == [created EXCEPT
                          ![k].cells = write_table_to_sheet(@, tables[table_idx])]
         IN AddTableSheets(filled, idx, tables, table_idx + 1)

\* The except clauses of lines 169-178, in order: class and printed prefix.
Handlers ==
    << <<"FileNotFoundError", "File error">>,
       <<"ValueError", "Value error">>,
       <<"IndexError", "Index error">>,
       <<"OSError", "I/O error">>,
       <<"RuntimeError", "Runtime error">> >>

\* Index of the first except clause that matches e, 0 if none does.
RECURSIVE FirstHandler(_, _)
FirstHandler(e, k) ==
    IF k > Len(Handlers) THEN 0
    ELSE IF IsInstance(e, Handlers[k][1]) THEN k
    ELSE FirstHandler(e, k + 1)

SuccessPrefix == "PDF data successfully converted to"

---------------------------------------------------------------------------
(* Initial state: the process has started, nothing is parsed yet *)

Init ==
    /\ pc = "main"
    /\ args = NoArgs
    /\ input_exists \in BOOLEAN
    /\ out_file \in {Absent, OldFile}
    /\ header_height = None
    /\ footer_height = None
    /\ pdf = [state |-> "unopened", pages |-> <<>>]
    /\ close_count = 0
    /\ workbook = <<>>
    /\ all_text = <<>>
    /\ i = None
    /\ page = 0
    /\ exc = NoExc
    /\ stdout = <<>>
    /\ exit_status = None
    /\ processed = <<>>
    /\ page_failure = None
    /\ save_count = 0

---------------------------------------------------------------------------
(* main, lines 205-218: parse the arguments, print the verbose line, call *)

Main ==
    /\ pc = "main"
    /\ \E inp \in InputPaths, outp \in OutputPaths, sp \in PageArgs, ep \in PageArgs,
          hh \in HeaderArgs, fh \in FooterArgs, vb \in BOOLEAN :
          /\ args' = [input_file |-> inp, output_file |-> outp, start_page |-> sp,
                      end_page |-> ep, header_height_mm |-> hh,
                      footer_height_mm |-> fh, verbose |-> vb]
          /\ stdout' = IF vb THEN <<[prefix |-> "Verbose mode is enabled.", msg |-> ""]>>
                       ELSE <<>>
    /\ pc' = "validate"
    /\ UNCHANGED <<input_exists, out_file, header_height, footer_height, pdf,
                   close_count, workbook, all_text, i, page, exc, exit_status,
                   processed, page_failure, save_count>>

(* pdf_to_excel, lines 98-106: the three checks, in order *)
Validate ==
    /\ pc = "validate"
    /\ IF ~input_exists
       THEN /\ exc' = Raise("FileNotFoundError",
                            "The input file '" \o PathStr(args.input_file)
                                \o "' does not exist.")
            /\ pc' = "except"
       ELSE IF ~EndsWith(Lower(args.input_file), DotPdf)
       THEN /\ exc' = Raise("ValueError", "The input file must be a PDF.")
            /\ pc' = "except"
       ELSE IF args.output_file = None
       THEN /\ exc' = Raise("AttributeError",
                            "'NoneType' object has no attribute 'lower'")
            /\ pc' = "except"
       ELSE IF ~EndsWith(Lower(args.output_file[1]), DotXlsx)
       THEN /\ exc' = Raise("ValueError",
                            "The output file must have an .xlsx extension.")
            /\ pc' = "except"
       ELSE /\ exc' = exc
            /\ pc' = "convert"
    /\ UNCHANGED <<args, input_exists, out_file, header_height, footer_height, pdf,
                   close_count, workbook, all_text, i, page, stdout, exit_status,
                   processed, page_failure, save_count>>

(* lines 109-110: None * 2.83465 raises TypeError *)
ConvertUnits ==
    /\ pc = "convert"
    /\ IF args.header_height_mm = None
       THEN /\ exc' = Raise("TypeError",
                            "unsupported operand type(s) for *: 'NoneType' and 'float'")
            /\ pc' = "except"
            /\ UNCHANGED <<header_height, footer_height>>
       ELSE IF args.footer_height_mm = None
       THEN /\ header_height' = Some(mm_to_points(args.header_height_mm[1]))
            /\ exc' = Raise("TypeError",
                            "unsupported operand type(s) for *: 'NoneType' and 'float'")
            /\ pc' = "except"
            /\ UNCHANGED footer_height
       ELSE /\ header_height' = Some(mm_to_points(args.header_height_mm[1]))
            /\ footer_height' = Some(mm_to_points(args.footer_height_mm[1]))
            /\ exc' = exc
            /\ pc' = "open"
    /\ UNCHANGED <<args, input_exists, out_file, pdf, close_count, workbook, all_text,
                   i, page, stdout, exit_status, processed, page_failure, save_count>>

(* lines 113-116: pdfplumber.open returns a document, or raises *)
OpenPdf ==
    /\ pc = "open"
    /\ \/ \E d \in Docs :
             /\ pdf' = [state |-> "open", pages |-> d]
             /\ pc' = "workbook"
             /\ exc' = exc
       \/ /\ exc' = RaiseFrom("OSError", "Failed to open the PDF file: no PDF",
                              Raise("LibraryError", "no PDF"))
          /\ pc' = "except"
          /\ pdf' = pdf
    /\ UNCHANGED <<args, input_exists, out_file, header_height, footer_height,
                   close_count, workbook, all_text, i, page, stdout, exit_status,
                   processed, page_failure, save_count>>

(* lines 119-124: Workbook(), its active sheet renamed, all_text = [] *)
CreateWorkbook ==
    /\ pc = "workbook"
    /\ \/ /\ workbook' = <<[title |-> "Text_Body", cells |-> EmptyCells]>>
          /\ all_text' = <<>>
          /\ pc' = "for"
          /\ exc' = exc
       \/ /\ exc' = Raise("LibraryError", "cannot create workbook")
          /\ pc' = "except"
          /\ UNCHANGED <<workbook, all_text>>
    /\ UNCHANGED <<args, input_exists, out_file, header_height, footer_height, pdf,
                   close_count, i, page, stdout, exit_status, processed, page_failure,
                   save_count>>

(* line 128: range(start_page - 1, end_page), then one step of the iteration *)
ForRange ==
    /\ pc = "for"
    /\ IF args.start_page = None
       THEN /\ exc' = Raise("TypeError",
                            "unsupported operand type(s) for -: 'NoneType' and 'int'")
            /\ pc' = "inner_except"
            /\ i' = i
       ELSE IF args.end_page = None
       THEN /\ exc' = Raise("TypeError",
                            "'NoneType' object cannot be interpreted as an integer")
            /\ pc' = "inner_except"
            /\ i' = i
       ELSE LET next == IF i = None THEN args.start_page[1] - 1 ELSE i[1] + 1
            IN IF next < args.end_page[1]
               THEN /\ i' = Some(next)
                    /\ pc' = "get_page"
                    /\ exc' = exc
               ELSE /\ i' = i
                    /\ pc' = "finally"
                    /\ exc' = exc
    /\ UNCHANGED <<args, input_exists, out_file, header_height, footer_height, pdf,
                   close_count, workbook, all_text, page, stdout, exit_status,
                   processed, page_failure, save_count>>

(* lines 129-132: pdf.pages[i], IndexError re-raised with a message *)
GetPage ==
    /\ pc = "get_page"
    /\ LET n == Len(pdf.pages)
           p == PyIndex(n, i[1])
       IN IF p = 0
          THEN /\ exc' = RaiseFrom("IndexError",
                                   "Page " \o ToString(i[1] + 1)
                                       \o " is out of range. The PDF has "
                                       \o ToString(n) \o " pages.",
                                   Raise("IndexError", "list index out of range"))
               /\ page_failure' = Some(i[1] + 1)
               /\ pc' = "inner_except"
               /\ UNCHANGED <<page, processed>>
          ELSE /\ page' = p
               /\ processed' = Append(processed,
                                      [num |-> i[1] + 1, page |-> p,
                                       handle |-> pdf.state, bbox |-> None,
                                       text |-> None, tables |-> <<>>,
                                       stage |-> "page"])
               /\ pc' = "text"
               /\ UNCHANGED <<exc, page_failure>>
    /\ UNCHANGED <<args, input_exists, out_file, header_height, footer_height, pdf,
                   close_count, workbook, all_text, i, stdout, exit_status, save_count>>

(* lines 135-144: the cropping box, within_bbox, extract_text, append *)
ExtractText ==
    /\ pc = "text"
    /\ LET k == Len(processed)
           cropping_box == <<0, header_height[1], PageWidth,
                             PageHeight - footer_height[1]>>
           page_text == pdf.pages[page].text
       IN \/ /\ processed' = [processed EXCEPT ![k].bbox = Some(cropping_box),
                                               ![k].text = page_text,
                                               ![k].stage = "text"]
             /\ all_text' = IF Truthy(page_text)
                            THEN Append(all_text, PageEntry(i[1], page_text[1]))
                            ELSE all_text
             /\ pc' = "tables"
             /\ UNCHANGED <<exc, page_failure>>
          \/ /\ exc' = Raise("ValueError", "bounding box is not within the page")
             /\ page_failure' = Some(i[1] + 1)
             /\ pc' = "inner_except"
             /\ UNCHANGED <<processed, all_text>>
    /\ UNCHANGED <<args, input_exists, out_file, header_height, footer_height, pdf,
                   close_count, workbook, i, page, stdout, exit_status, save_count>>

(* lines 147-150: extract_tables, one new sheet per table *)
ExtractTables ==
    /\ pc = "tables"
    /\ LET k == Len(processed)
           tables == pdf.pages[page].tables
       IN \/ /\ workbook' = AddTableSheets(workbook, i[1], tables, 1)
             /\ processed' = [processed EXCEPT ![k].tables = tables,
                                               ![k].stage = "tables"]
             /\ pc' = "for"
             /\ UNCHANGED <<exc, page_failure>>
          \/ /\ exc' = Raise("LibraryError", "table extraction failed")
             /\ page_failure' = Some(i[1] + 1)
             /\ pc' = "inner_except"
             /\ UNCHANGED <<workbook, processed>>
    /\ UNCHANGED <<args, input_exists, out_file, header_height, footer_height, pdf,
                   close_count, all_text, i, page, stdout, exit_status, save_count>>

(* Variant of InnerExcept: the exception is dropped instead of re-raised *)
InnerExceptSwallow ==
    /\ pc = "inner_except"
    /\ exc' = NoExc
    /\ pc' = "finally"
    /\ UNCHANGED <<args, input_exists, out_file, header_height, footer_height, pdf,
                   close_count, workbook, all_text, i, page, stdout, exit_status,
                   processed, page_failure, save_count>>

(* lines 152-153: any exception of the loop becomes a RuntimeError *)
InnerExcept ==
    /\ pc = "inner_except"
    /\ exc' = RaiseFrom("RuntimeError", "Error processing PDF pages: " \o exc.msg, exc)
    /\ pc' = "finally"
    /\ UNCHANGED <<args, input_exists, out_file, header_height, footer_height, pdf,
                   close_count, workbook, all_text, i, page, stdout, exit_status,
                   processed, page_failure, save_count>>

(* lines 155-156: pdf.close(), then the pending exception goes on *)
Finally ==
    /\ pc = "finally"
    /\ pdf' = [pdf EXCEPT !.state = "closed"]
    /\ close_count' = close_count + 1
    /\ pc' = IF exc = NoExc THEN "write_text" ELSE "except"
    /\ UNCHANGED <<args, input_exists, out_file, header_height, footer_height,
                   workbook, all_text, i, page, exc, stdout, exit_status, processed,
                   page_failure, save_count>>

(* line 159: write_text_to_sheet(text_sheet, all_text); a cell write can raise *)
WriteText ==
    /\ pc = "write_text"
    /\ \/ /\ workbook' = [workbook EXCEPT
                            ![1].cells = write_text_to_sheet(@, all_text)]
          /\ pc' = "save"
          /\ exc' = exc
       \/ /\ all_text # <<>>
          /\ exc' = Raise("IllegalCharacterError", all_text[1])
          /\ pc' = "except"
          /\ workbook' = workbook
    /\ UNCHANGED <<args, input_exists, out_file, header_height, footer_height, pdf,
                   close_count, all_text, i, page, stdout, exit_status, processed,
                   page_failure, save_count>>

(* lines 162-165: workbook.save(output_file) *)
Save ==
    /\ pc = "save"
    /\ save_count' = save_count + 1
    /\ \/ /\ out_file' = [exists |-> TRUE, sheets |-> workbook,
                          version |-> out_file.version + 1]
          /\ pc' = "print_success"
          /\ exc' = exc
       \/ /\ exc' = RaiseFrom("OSError", "Failed to save the Excel file: denied",
                              Raise("OSError", "denied"))
          /\ pc' = "except"
          /\ out_file' = out_file
    /\ UNCHANGED <<args, input_exists, header_height, footer_height, pdf, close_count,
                   workbook, all_text, i, page, stdout, exit_status, processed,
                   page_failure>>

(* line 167 *)
PrintSuccess ==
    /\ pc = "print_success"
    /\ stdout' = Append(stdout, [prefix |-> SuccessPrefix,
                                 msg |-> PathStr(args.output_file[1])])
    /\ pc' = "return"
    /\ UNCHANGED <<args, input_exists, out_file, header_height, footer_height, pdf,
                   close_count, workbook, all_text, i, page, exc, exit_status,
                   processed, page_failure, save_count>>

(* lines 169-178: the first matching except clause prints; none: propagate *)
Except ==
    /\ pc = "except"
    /\ LET h == FirstHandler(exc, 1)
       IN IF h = 0
          THEN /\ pc' = "uncaught"
               /\ stdout' = stdout
          ELSE /\ stdout' = Append(stdout, [prefix |-> Handlers[h][2], msg |-> exc.msg])
               /\ pc' = "return"
    /\ UNCHANGED <<args, input_exists, out_file, header_height, footer_height, pdf,
                   close_count, workbook, all_text, i, page, exc, exit_status,
                   processed, page_failure, save_count>>

(* Variant of MainReturn: status 1 once an error line was printed *)
MainReturnStatus ==
    /\ pc = "return"
    /\ exit_status' = IF exc = NoExc THEN Some(0) ELSE Some(1)
    /\ pc' = "done"
    /\ UNCHANGED <<args, input_exists, out_file, header_height, footer_height, pdf,
                   close_count, workbook, all_text, i, page, exc, stdout, processed,
                   page_failure, save_count>>

(* main, lines 220-221: return 0, passed to sys.exit at line 225 *)
MainReturn ==
    /\ pc = "return"
    /\ exit_status' = Some(0)
    /\ pc' = "done"
    /\ UNCHANGED <<args, input_exists, out_file, header_height, footer_height, pdf,
                   close_count, workbook, all_text, i, page, exc, stdout, processed,
                   page_failure, save_count>>

(* an exception that leaves pdf_to_excel leaves main too: traceback, status 1 *)
Uncaught ==
    /\ pc = "uncaught"
    /\ exit_status' = Some(1)
    /\ pc' = "done"
    /\ UNCHANGED <<args, input_exists, out_file, header_height, footer_height, pdf,
                   close_count, workbook, all_text, i, page, exc, stdout, processed,
                   page_failure, save_count>>

Next ==
    \/ Main
    \/ Validate
    \/ ConvertUnits
    \/ OpenPdf
    \/ CreateWorkbook
    \/ ForRange
    \/ GetPage
    \/ ExtractText
    \/ ExtractTables
    \/ InnerExcept
    \/ Finally
    \/ WriteText
    \/ Save
    \/ PrintSuccess
    \/ Except
    \/ MainReturn
    \/ Uncaught

Spec == Init /\ [][Next]_vars

---------------------------------------------------------------------------
(* Vocabulary of the properties *)

\* The error kinds of the specification, by the prefix of the printed line.
KindOf ==
    [p \in {"File error", "Value error", "I/O error", "Index error", "Runtime error"} |->
        CASE p = "File error" -> "NotFound"
          [] p = "Value error" -> "InvalidInput"
          [] p = "I/O error" -> "IoError"
          [] p = "Index error" -> "OutOfRange"
          [] OTHER -> "UnexpectedFailure"]

IsErrorLine(l) == l.prefix \in DOMAIN KindOf
IsSuccessLine(l) == l.prefix = SuccessPrefix

ErrorLines == SelectSeq(stdout, IsErrorLine)
SuccessLines == SelectSeq(stdout, IsSuccessLine)

\* The conversion reported exactly the error kind `kind`.
ReportedKind(kind) ==
    /\ Len(ErrorLines) = 1
    /\ KindOf[ErrorLines[1].prefix] = kind
    /\ SuccessLines = <<>>

\* Two characters equal up to case.
CasePairs ==
    { <<"p", "P">>, <<"d", "D">>, <<"f", "F">>, <<"x", "X">>, <<"l", "L">>,
      <<"s", "S">>, <<"t", "T">>, <<"c", "C">>, <<"v", "V">>, <<"a", "A">>,
      <<"o", "O">> }

SameLetter(a, b) == a = b \/ <<a, b>> \in CasePairs \/ <<b, a>> \in CasePairs

\* `path` ends in `suffix`, letters compared without regard to case.
HasSuffixCI(path, suffix) ==
    /\ Len(path) >= Len(suffix)
    /\ \A k \in 1..Len(suffix) :
          SameLetter(path[Len(path) - Len(suffix) + k], suffix[k])

\* An optional text that is present and not empty.
HasText(t) == t # None /\ Len(t[1]) > 0

\* The rows the text sheet is to hold: one per fetched page with text.
RECURSIVE ExpectedText(_)
ExpectedText(pages) ==
    IF pages = <<>> THEN <<>>
    ELSE LET e == Head(pages)
         IN (IF HasText(e.text)
             THEN << "Page " \o ToString(e.num) \o ":" \o "\n" \o e.text[1] >>
             ELSE <<>>) \o ExpectedText(Tail(pages))

SheetName(num, k) == "Table_Page_" \o ToString(num) \o "_" \o ToString(k)

\* The table sheet titles in order of page, then detection position.
RECURSIVE ExpectedTitles(_)
ExpectedTitles(pages) ==
    IF pages = <<>> THEN <<>>
    ELSE LET e == Head(pages)
         IN [k \in 1..Len(e.tables) |-> SheetName(e.num, k)]
                \o ExpectedTitles(Tail(pages))

\* The fetched pages whose tables have been written.
IsDone(e) == e.stage = "tables"
DonePages == SelectSeq(processed, IsDone)

RECURSIVE TableCount(_)
TableCount(pages) ==
    IF pages = <<>> THEN 0 ELSE Len(Head(pages).tables) + TableCount(Tail(pages))

\* The length of the longest row of a table.
Widest(table) ==
    IF table = <<>> THEN 0
    ELSE LET lens == { Len(table[r]) : r \in 1..Len(table) }
         IN CHOOSE m \in lens : \A n \in lens : n <= m

Titles(wb) == [k \in 1..Len(wb) |-> wb[k].title]

ArgsParsed == pc # "main"

\* Number of page numbers in start_page .. end_page.
RangeSize ==
    IF args.end_page[1] >= args.start_page[1]
    THEN args.end_page[1] - args.start_page[1] + 1
    ELSE 0

---------------------------------------------------------------------------
(* C1 *)

\* The loop reached a page number above the document's page count.
C1_PageBeyondCount ==
    /\ page_failure # None
    /\ page_failure[1] > Len(pdf.pages)
    /\ exc # NoExc
    /\ "IndexError" \in {exc.type, exc.context}

\* C1: when the page range of a validated request on an opened document
\* reaches a page number above the page count, the conversion reports the
\* OutOfRange kind (the "Index error" line) and no other kind.
C1_OutOfRangeReported ==
    (pc = "done" /\ C1_PageBeyondCount) => ReportedKind("OutOfRange")

---------------------------------------------------------------------------
(* C2 *)

\* C2: for every request the command line can pass, omitted options
\* included, no exception leaves the conversion routine, and a finished
\* run has printed exactly one outcome: the success line or one line of one
\* of the five error kinds.
C2_FailuresReportedNotRaised ==
    /\ pc # "uncaught"
    /\ pc = "done" => Len(ErrorLines) + Len(SuccessLines) = 1

---------------------------------------------------------------------------
(* C3 *)

\* C3: once the document was opened, every finished run has closed the
\* handle, exactly once, and every page was fetched while it was open.
C3_HandleClosedOnEveryExit ==
    (pc = "done" /\ pdf.state # "unopened") =>
        /\ pdf.state = "closed"
        /\ close_count = 1
        /\ \A k \in 1..Len(processed) : processed[k].handle = "open"

---------------------------------------------------------------------------
(* C4 *)

\* C4: once the processing of a page has failed, no later page is fetched,
\* the workbook is never saved and the file at the output path stays as it
\* was, whatever earlier pages added to the workbook.
C4_NoSaveAfterPageFailure ==
    page_failure # None =>
        /\ save_count = 0
        /\ out_file \in {Absent, OldFile}
        /\ pc \notin {"get_page", "text", "tables", "for", "write_text", "save",
                      "print_success"}
        /\ \A k \in 1..Len(processed) : processed[k].num <= page_failure[1]
        /\ SuccessLines = <<>>

\* A finished run in which an earlier page gave text and a table sheet, a
\* later page failed, and pages of the range were still to come.
C4_Witness ==
    /\ pc = "done"
    /\ page_failure # None
    /\ args.end_page # None
    /\ page_failure[1] < args.end_page[1]
    /\ DonePages # <<>>
    /\ all_text # <<>>
    /\ Len(workbook) > 1
    /\ out_file = OldFile

---------------------------------------------------------------------------
(* C5 *)

C5_Check1Fails == ~input_exists
C5_Check2Fails == ~HasSuffixCI(args.input_file, DotPdf)
C5_Check3Fails ==
    args.output_file # None /\ ~HasSuffixCI(args.output_file[1], DotXlsx)

\* C5: the checks are made in the order input exists, input ends in .pdf,
\* output ends in .xlsx, suffixes compared without regard to case; the first
\* failing check decides the reported kind; when a check fails (or there is
\* no output path to check) the document is never opened, no workbook is
\* created and nothing is saved; when none fails no validation error shows.
C5_ValidationOrder ==
    ArgsParsed =>
        /\ (C5_Check1Fails \/ C5_Check2Fails \/ C5_Check3Fails
                \/ args.output_file = None) =>
              /\ pdf.state = "unopened"
              /\ workbook = <<>>
              /\ save_count = 0
              /\ out_file.version = 0
        /\ (pc = "done" /\ C5_Check1Fails) =>
              /\ ReportedKind("NotFound")
        /\ (pc = "done" /\ ~C5_Check1Fails /\ C5_Check2Fails) =>
              /\ ReportedKind("InvalidInput")
              /\ ErrorLines[1].msg = "The input file must be a PDF."
        /\ (pc = "done" /\ ~C5_Check1Fails /\ ~C5_Check2Fails /\ C5_Check3Fails) =>
              /\ ReportedKind("InvalidInput")
              /\ ErrorLines[1].msg = "The output file must have an .xlsx extension."
        /\ (~C5_Check1Fails /\ ~C5_Check2Fails /\ ~C5_Check3Fails) =>
              \A k \in 1..Len(ErrorLines) :
                  KindOf[ErrorLines[k].prefix] \notin {"NotFound", "InvalidInput"}

\* An existing input file without the .pdf suffix, with an output path that
\* fails its check too: the input's check decided.
C5_Witness ==
    /\ pc = "done"
    /\ input_exists
    /\ C5_Check2Fails
    /\ C5_Check3Fails
    /\ ReportedKind("InvalidInput")
    /\ pdf.state = "unopened"

---------------------------------------------------------------------------
(* C6 *)

\* C6: pages are fetched in ascending order from start_page, each once and
\* none past end_page; at every point the workbook's sheets are "Text_Body"
\* followed by the table sheets in order of page and detection position;
\* the text sheet has no cell before the last page of the range is done.
C6_ProcessingOrder ==
    /\ \A k \in 1..Len(processed) :
          /\ processed[k].num = args.start_page[1] + k - 1
          /\ processed[k].num <= args.end_page[1]
    /\ workbook # <<>> =>
          /\ workbook[1].title = "Text_Body"
          /\ Titles(workbook) = <<"Text_Body">> \o ExpectedTitles(DonePages)
          /\ workbook[1].cells # EmptyCells =>
                /\ Len(DonePages) = RangeSize
                /\ pc \in {"save", "print_success", "except", "return", "done"}

\* A finished run over two pages with tables on both and text written.
C6_Witness ==
    /\ pc = "done"
    /\ Len(DonePages) >= 2
    /\ Len(workbook) >= 4
    /\ workbook[1].cells # EmptyCells

---------------------------------------------------------------------------
(* C7 *)

\* C7: after a successful conversion the saved "Text_Body" sheet holds, in
\* column 1 of rows 1..n and nowhere else, the entry "Page i:" newline text
\* of every fetched page whose text is present and not empty, in page
\* order; with start_page = end_page one page is fetched and n <= 1.
C7_TextSheet ==
    out_file.version > 0 =>
        LET rows == ExpectedText(processed)
            sheet == out_file.sheets[1]
        IN /\ sheet.title = "Text_Body"
           /\ DOMAIN sheet.cells = { <<r, 1>> : r \in 1..Len(rows) }
           /\ \A r \in 1..Len(rows) : sheet.cells[<<r, 1>>] = rows[r]
           /\ Len(processed) = RangeSize
           /\ args.start_page = args.end_page =>
                 Len(processed) = 1 /\ Len(rows) <= 1

\* A saved workbook with a text row, made from pages of which one had no
\* text or an empty one.
C7_Witness ==
    /\ pc = "done"
    /\ out_file.version > 0
    /\ Len(processed) >= 2
    /\ Len(ExpectedText(processed)) >= 1
    /\ Len(ExpectedText(processed)) < Len(processed)

---------------------------------------------------------------------------
(* C8 *)

\* C8: for every page whose tables were written and every table at position
\* k there is exactly one sheet named Table_Page_i_k, holding the table's
\* values cell by cell and nothing else; there are as many table sheets as
\* tables, and no two sheets share a name.
C8_TableSheets ==
    workbook # <<>> =>
        /\ Len(workbook) - 1 = TableCount(DonePages)
        /\ \A a, b \in 1..Len(workbook) :
              workbook[a].title = workbook[b].title => a = b
        /\ \A p \in 1..Len(DonePages) :
              \A k \in 1..Len(DonePages[p].tables) :
                 LET table == DonePages[p].tables[k]
                     named == { s \in 1..Len(workbook) :
                                   workbook[s].title = SheetName(DonePages[p].num, k) }
                 IN /\ Cardinality(named) = 1
                    /\ \A s \in named :
                          /\ DOMAIN workbook[s].cells =
                                { rc \in (1..Len(table)) \X (1..Widest(table)) :
                                     rc[2] <= Len(table[rc[1]]) }
                          /\ \A rc \in DOMAIN workbook[s].cells :
                                workbook[s].cells[rc] = table[rc[1]][rc[2]]

\* A saved workbook with a sheet of a table whose rows differ in length,
\* next to another table sheet of the same page.
C8_Witness ==
    /\ pc = "done"
    /\ out_file.version > 0
    /\ \E s \in 1..Len(out_file.sheets) :
          /\ <<2, 3>> \in DOMAIN out_file.sheets[s].cells
          /\ <<1, 2>> \notin DOMAIN out_file.sheets[s].cells
          /\ s < Len(out_file.sheets)

---------------------------------------------------------------------------
(* C9 *)

\* C9: when the conversion has printed its outcome, the success line or an
\* error line of one of the five kinds, the program ends with status 0; an
\* error is exactly one error line, without the success line.
C9_ExitStatusZero ==
    /\ ErrorLines # <<>> => (Len(ErrorLines) = 1 /\ SuccessLines = <<>>)
    /\ SuccessLines # <<>> => (Len(SuccessLines) = 1 /\ ErrorLines = <<>>)
    /\ (pc = "done" /\ (ErrorLines # <<>> \/ SuccessLines # <<>>)) =>
          exit_status = Some(0)

\* A run that ended after a failed save was reported as an I/O error.
C9_Witness ==
    /\ pc = "done"
    /\ save_count = 1
    /\ ReportedKind("IoError")
    /\ exit_status = Some(0)

---------------------------------------------------------------------------
(* C10 *)

\* C10: every page fetched under number i is the document's page number i,
\* with 1 <= i <= page count, for all start_page and end_page.
C10_PageNumbersAreDocumentPages ==
    \A k \in 1..Len(processed) :
        /\ processed[k].page = processed[k].num
        /\ 1 <= processed[k].num
        /\ processed[k].num <= Len(pdf.pages)

=============================================================================
